---- MODULE Spec2Model ----
(***************************************************************************)
(* Model of the rx renderer synchronisation layer (src/src/wgpu.rs): the   *)
(* effect protocol between session and renderer, the per-view GPU          *)
(* resources (final and staging framebuffers), the shared paste buffer and *)
(* the asynchronous snapshot read-back.                                    *)
(*                                                                         *)
(* The session, the view model and the resource manager are not part of    *)
(* the source files at hand; the parts of them the renderer reads are      *)
(* modelled from the specification (sections 3, 4.1, 4.2, 4.4, 6).         *)
(*                                                                         *)
(* Pixels are bytes in a layout.  "T" is the transparent pixel; "P" is the *)
(* brush colour laid out as Rgba8 and "Q" the same colour laid out as      *)
(* Bgra8.  Framebuffers hold Bgra8, textures hold Rgba8.                   *)
(***************************************************************************)
EXTENDS Integers, Sequences, FiniteSets, TLC

\* ---------------------------------------------------------------- bounds
MaxViews == 2
MaxDim == 2
MaxTicks == 3
MaxCmds == 2
MaxInputs == 2
MaxPasteInputs == 3
MaxViewInputs == 4
MaxPending == 2
MaxLog == 4
MaxZeroInputs == 3
MaxTests == 3
MaxBlendInputs == 3
MaxFrameTime == 2
HistoryDepth == 2

\* ------------------------------------------------------------- geometry
ViewIds == 1..MaxViews
Dims == {1, MaxDim}

Min(a, b) == IF a < b THEN a ELSE b
Max(a, b) == IF a < b THEN b ELSE a

Coords(w, h) == (0..(w - 1)) \X (0..(h - 1))

\* Rect::origin(w, h)
RectOrigin(w, h) == [x1 |-> 0, y1 |-> 0, x2 |-> w, y2 |-> h]
RectW(r) == r.x2 - r.x1
RectH(r) == r.y2 - r.y1
InRect(x, y, r) == r.x1 <= x /\ x < r.x2 /\ r.y1 <= y /\ y < r.y2

\* A pixel buffer: a texture or the pixel data of a snapshot.
Buffer(w, h, px) == [w |-> w, h |-> h, px |-> px]
Blank(w, h) == Buffer(w, h, [c \in Coords(w, h) |-> "T"])

\* ---------------------------------------------------------------- pixels
\* Rgba8 <-> Bgra8: the first and the third byte change places.
SwapRB(b) == CASE b = "P" -> "Q" [] b = "Q" -> "P" [] OTHER -> b

\* Pixels::Rgba(..) / Pixels::Bgra(..): pixel data tagged with its layout.
Pixels(fmt, buf) == [fmt |-> fmt, buf |-> buf]

\* Pixels::into_bgra8 / Pixels::into_rgba8
into_bgra8(p) ==
    IF p.fmt = "bgra" THEN p.buf
    ELSE [p.buf EXCEPT !.px = [c \in DOMAIN p.buf.px |-> SwapRB(p.buf.px[c])]]

into_rgba8(p) ==
    IF p.fmt = "rgba" THEN p.buf
    ELSE [p.buf EXCEPT !.px = [c \in DOMAIN p.buf.px |-> SwapRB(p.buf.px[c])]]

\* The shapes the brush emits: one view pixel each, in the session's Rgba8
\* colour ("P" paints, "T" is the eraser's transparent colour).
Points == {<<0, 0>>, <<MaxDim - 1, MaxDim - 1>>}
Blendings == {"default", "constant"}
Shape(x, y, c) == [x |-> x, y |-> y, c |-> c]

\* ------------------------------------------------ resource manager (4.1)
\* A snapshot: the extent it was taken with and its pixel data.
Snapshot(w, h, pixels) == [w |-> w, h |-> h, pixels |-> pixels]

PixelAt(buf, x, y) == IF <<x, y>> \in DOMAIN buf.px THEN buf.px[<<x, y>>] ELSE "T"

\* Resources::get_snapshot: the current (most recent) snapshot of a view.
get_snapshot(res, id) == res[id][Len(res[id])]

\* Resources::get_snapshot_rect: the Rgba8 pixels of the part of `rect` that
\* lies inside the snapshot (empty when they are disjoint).
get_snapshot_rect(res, id, rect) ==
    LET s == get_snapshot(res, id)
        rgba == into_rgba8(s.pixels)
        x1 == Max(rect.x1, 0)
        y1 == Max(rect.y1, 0)
        w == Max(Min(rect.x2, s.w) - x1, 0)
        h == Max(Min(rect.y2, s.h) - y1, 0)
    IN  Buffer(w, h, [c \in Coords(w, h) |-> PixelAt(rgba, c[1] + x1, c[2] + y1)])

\* ViewResources::push_snapshot: the new head; the oldest entry is evicted
\* once the history is deeper than the configured depth.
push_snapshot(hist, pixels, w, h) ==
    LET hh == Append(hist, Snapshot(w, h, pixels))
    IN  IF Len(hh) > HistoryDepth THEN Tail(hh) ELSE hh

\* ------------------------------------------------------- GPU primitives
\* core::Renderer::framebuffer: a texture whose contents are not yet defined
\* ("G" stands for whatever the device left there).
framebuffer(w, h) == Buffer(w, h, [c \in Coords(w, h) |-> "G"])

\* Op::Clear
OpClear(buf, color) == [buf EXCEPT !.px = [c \in DOMAIN buf.px |-> color]]

\* Op::Fill: the whole texture is replaced by the data.
OpFill(buf, data) ==
    [buf EXCEPT !.px = [c \in DOMAIN buf.px |-> PixelAt(data, c[1], c[2])]]

\* Op::Transfer: `data`, w x h pixels, is copied into `rect` of the texture.
OpTransfer(buf, data, w, h, rect) ==
    [buf EXCEPT !.px = [c \in DOMAIN buf.px |->
        IF InRect(c[1], c[2], rect) /\ c[1] - rect.x1 < w /\ c[2] - rect.y1 < h
        THEN PixelAt(data, c[1] - rect.x1, c[2] - rect.y1)
        ELSE buf.px[c]]]

\* Op::Blit: the texture's `src` region is copied onto its `dst` region.
OpBlit(buf, src, dst) ==
    [buf EXCEPT !.px = [c \in DOMAIN buf.px |->
        IF InRect(c[1], c[2], dst)
        THEN PixelAt(buf, src.x1 + (c[1] - dst.x1), src.y1 + (c[2] - dst.y1))
        ELSE buf.px[c]]]

\* ViewData::new: the final and the staging framebuffer of a view.
ViewDataNew(w, h) == [fb |-> framebuffer(w, h), staging_fb |-> framebuffer(w, h)]

\* --------------------------------------------------------- render passes
\* The view-space cell that the centre of framebuffer pixel i falls in, under
\* the orthographic projection of a view `vdim` wide onto `fbdim` pixels.
ViewCell(i, vdim, fbdim) == ((2 * i + 1) * vdim) \div (2 * fbdim)

\* Blending::default() is alpha blending, Blending::constant() replaces.
Blend(blending, src, dst) ==
    IF blending = "constant" THEN src
    ELSE IF src = "T" THEN dst ELSE src

\* Renderer::render_brush_strokes: the shapes of a batch drawn in order into a
\* framebuffer (Bgra8) through the view projection.
RECURSIVE render_brush_strokes(_, _, _, _, _)
render_brush_strokes(buf, shapes, blending, vw, vh) ==
    IF shapes = <<>> THEN buf
    ELSE LET s == Head(shapes)
             nb == [buf EXCEPT !.px = [c \in DOMAIN buf.px |->
                       IF ViewCell(c[1], vw, buf.w) = s.x /\ ViewCell(c[2], vh, buf.h) = s.y
                       THEN Blend(blending, SwapRB(s.c), buf.px[c])
                       ELSE buf.px[c]]]
         IN  render_brush_strokes(nb, Tail(shapes), blending, vw, vh)

\* One paste quad: the paste texture (Rgba8) stretched over `dst` (view space),
\* drawn with the paste2d pipeline (alpha blending).
DrawPasteQuad(buf, tex, dst, vw, vh) ==
    [buf EXCEPT !.px = [c \in DOMAIN buf.px |->
        LET vx == ViewCell(c[1], vw, buf.w)
            vy == ViewCell(c[2], vh, buf.h)
        IN  IF InRect(vx, vy, dst) /\ tex.w > 0 /\ tex.h > 0
            THEN Blend("default",
                       SwapRB(PixelAt(tex, ((vx - dst.x1) * tex.w) \div RectW(dst),
                                           ((vy - dst.y1) * tex.h) \div RectH(dst))),
                       buf.px[c])
            ELSE buf.px[c]]]

RECURSIVE DrawPasteQuads(_, _, _, _, _)
DrawPasteQuads(buf, tex, quads, vw, vh) ==
    IF quads = <<>> THEN buf
    ELSE DrawPasteQuads(DrawPasteQuad(buf, tex, Head(quads), vw, vh), tex, Tail(quads), vw, vh)

\* ----------------------------------------------------------------- state
VARIABLES
    \* session (session::Session, as far as the renderer reads it)
    sstate,         \* session.state: "running" or "paused"
    views,          \* session.views: ViewId -> [fw, fh, dirty, damaged, ops]
    active,         \* session.active_view().id
    nextId,         \* the id the next view gets
    pasting,        \* session.mode = Visual(Pasting)
    selection,      \* session.selection, <<>> or <<rect>>
    effects,        \* effects accumulated by the running update
    ncmd,           \* inputs handled by the running update
    tick,           \* logical tick number
    \* resource manager
    resources,      \* ViewId -> snapshot history, the last entry is current
    \* renderer (struct Renderer)
    view_data,      \* ViewId -> ViewData
    paste,          \* Paste: texture, outputs, ready
    staging_batch,
    final_batch,
    blending,
    \* control
    pc,             \* where the main loop stands
    queue,          \* the Vec<Effect> handed to init / frame, not yet drained
    todo,           \* view ops of this frame not yet handled, <<id, op>>
    pending,        \* read-backs submitted whose callback has not run
    panicked,       \* an expect() failed
    deadlocked,     \* a callback waits for the lock its own thread holds
    present_mode,   \* Renderer.present_mode
    swap_chain,     \* Renderer.swap_chain: width, height, mode
    \* execution (execution::Execution, shared by session and renderer)
    execution,
    budget,         \* inputs the run may still take
    horizon,        \* ticks the run may take
    \* history, read by the properties only
    delivered,      \* the effects handed to the current init / frame call
    applied,        \* those of them applied so far
    flog,           \* what the current frame did, in order: "effect", "op"
                    \* ("texture" after it: the paste texture was re-created),
                    \* "pass" ("preview" after it: the paste preview was drawn)
    last,           \* the effect handled last and what it did (locked: it
                    \* submitted to the device with the resource lock held)
    phase,          \* "init", "none", "skipped" or "running": the current call
    pasteQueued,    \* Paste ops queued by the session so far
    pasteDrawn,     \* paste outputs drawn into a final framebuffer so far
    stroke,         \* committed strokes expected in each view's framebuffer
    painted,        \* pixels ViewPaintFinal shapes were composited at, per view
    \* the test harness (tests/main.rs)
    tests,          \* where each test thread stands in run()
    rx_png          \* the file /tmp/rx.png exists

sessionVars == <<sstate, views, active, nextId, pasting, selection, effects, ncmd, tick>>
rendererVars == <<view_data, paste, staging_batch, final_batch, blending>>
controlVars == <<pc, queue, todo, pending, panicked, deadlocked>>
boundVars == <<budget, horizon>>
testVars == <<tests, rx_png>>
presentVars == <<present_mode, swap_chain>>
historyVars == <<delivered, applied, flog, last, phase, pasteQueued, pasteDrawn, stroke, painted>>
vars == <<sessionVars, resources, rendererVars, controlVars, boundVars, presentVars,
          execution, historyVars, testVars>>

\* ---------------------------------------------------------------- values
\* session::Effect
Eff(type, id, shapes, bl) == [type |-> type, id |-> id, shapes |-> shapes, blending |-> bl]
ViewActivated(id) == Eff("ViewActivated", id, <<>>, "default")
ViewAdded(id) == Eff("ViewAdded", id, <<>>, "default")
ViewRemoved(id) == Eff("ViewRemoved", id, <<>>, "default")
ViewTouched(id) == Eff("ViewTouched", id, <<>>, "default")
ViewDamaged(id) == Eff("ViewDamaged", id, <<>>, "default")
ViewBlendingChanged(bl) == Eff("ViewBlendingChanged", 0, <<>>, bl)
ViewPaintDraft(shapes) == Eff("ViewPaintDraft", 0, shapes, "default")
ViewPaintFinal(shapes) == Eff("ViewPaintFinal", 0, shapes, "default")

\* view::ViewOp
NoRect == RectOrigin(0, 0)
Op(op, src, dst, color) == [op |-> op, src |-> src, dst |-> dst, color |-> color]
ViewOpClear(color) == Op("Clear", NoRect, NoRect, color)
ViewOpBlit(src, dst) == Op("Blit", src, dst, "T")
ViewOpYank(src) == Op("Yank", src, NoRect, "T")
ViewOpPaste(dst) == Op("Paste", NoRect, dst, "T")

\* The view model: size, the dirty and damaged flags, the pending view ops.
View(w, h) == [fw |-> w, fh |-> h, dirty |-> FALSE, damaged |-> FALSE, ops |-> <<>>]

NoLast == [type |-> "none", id |-> 0, branch |-> "none", snap |-> <<>>, had |-> FALSE,
           locked |-> FALSE]

\* core::Renderer::swap_chain
SwapChain(w, h, mode) == [width |-> w, height |-> h, mode |-> mode]
PresentModes == {"vsync", "novsync"}

\* Execution (spec 4.5): Normal, Recording or Replaying.  `events` are the
\* logged events a replay has still to dispatch, `log` the events accepted
\* (recording) or dispatched (replaying) so far with their ticks, `frames` the
\* frame digests stored with their ticks, `checked` the ticks whose digest a
\* replay has verified, `failure` the mismatch that failed the run, if any.
Exec(mode, events, log, frames) ==
    [mode |-> mode, events |-> events, log |-> log, frames |-> frames,
     checked |-> <<>>, failure |-> <<>>]
Normal == Exec("normal", <<>>, <<>>, <<>>)
Recording == Exec("recording", <<>>, <<>>, <<>>)
Replaying(events, frames) == Exec("replaying", events, <<>>, frames)

\* Execution::is_normal
is_normal(e) == e.mode = "normal"

\* The content hash of a frame: frames are equal iff their digests are.
Digest(data) == [hash |-> data]

\* The test threads of the harness: cargo runs the #[test] functions in parallel.
Tests == 1..MaxTests

\* BTreeMap::insert / BTreeMap::remove
MapInsert(m, k, v) == [i \in DOMAIN m \cup {k} |-> IF i = k THEN v ELSE m[i]]
MapRemove(m, k) == [i \in DOMAIN m \ {k} |-> m[i]]
EmptyMap == [i \in {} |-> 0]

\* ------------------------------------------------------ Renderer::new
InitRenderer ==
    /\ sstate = "running"
    /\ views = MapInsert(EmptyMap, 1, View(MaxDim, MaxDim))
    /\ active = 1
    /\ nextId = 2
    /\ pasting = FALSE
    /\ selection = <<>>
    /\ effects = <<>>
    /\ ncmd = 0
    /\ tick = 0
    /\ resources = MapInsert(EmptyMap, 1,
                      <<Snapshot(MaxDim, MaxDim, Pixels("rgba", Blank(MaxDim, MaxDim)))>>)
    /\ view_data = EmptyMap
    /\ paste = [texture |-> framebuffer(1, 1), outputs |-> <<>>, ready |-> FALSE]
    /\ staging_batch = <<>>
    /\ final_batch = <<>>
    /\ blending = "default"
    /\ pc = "init"
    /\ queue = <<ViewAdded(1), ViewActivated(1)>>
    /\ todo = <<>>
    /\ pending = <<>>
    /\ panicked = FALSE
    /\ deadlocked = FALSE
    /\ present_mode = "vsync"
    /\ swap_chain = SwapChain(2 * MaxDim, MaxDim, "vsync")
    /\ delivered = <<ViewAdded(1), ViewActivated(1)>>
    /\ applied = <<>>
    /\ flog = <<>>
    /\ last = NoLast
    /\ phase = "init"
    /\ pasteQueued = 0
    /\ pasteDrawn = 0
    /\ stroke = [i \in ViewIds |-> {}]
    /\ painted = [i \in ViewIds |-> {}]
    /\ tests = [t \in Tests |-> "start"]
    /\ rx_png = FALSE

Init ==
    /\ InitRenderer
    /\ execution = Normal
    /\ budget = MaxInputs
    /\ horizon = MaxTicks

\* ------------------------------------------------- Renderer: effects
\* What handling one effect does to the renderer: the new view data, batches
\* and blend mode; whether an expect() failed; whether it submits to the
\* device and whether the resource lock is held at that submit; and, for the
\* properties, the reconciliation branch taken and the snapshot it read.
Outcome(vd, sb, fb, bl, panic, submit, locked, branch, snap) ==
    [view_data |-> vd, staging_batch |-> sb, final_batch |-> fb, blending |-> bl,
     panic |-> panic, submit |-> submit, locked |-> locked, branch |-> branch,
     snap |-> snap]

Unchanged(panic) ==
    Outcome(view_data, staging_batch, final_batch, blending, panic, FALSE, FALSE,
            "none", <<>>)

\* Faulty variant of the transfer size: the whole snapshot is transferred.
TransferWhole(s, v) == s

\* The transfer size of a re-created view: not more than fits in the view buffer.
TransferSize(s, v) == Min(s, v)

\* The rectangle of the snapshot that a re-creation reads and transfers.
TransferRect(id, vw, vh) ==
    LET snapshot == get_snapshot(resources, id)
    IN  RectOrigin(TransferSize(snapshot.w, vw), TransferSize(snapshot.h, vh))

\* Faulty variants of the re-creation: the old view data is kept; the new
\* framebuffer is not cleared before the transfer.
KeepViewData(id, vw, vh) == view_data[id]

RecreateNoClear(id, vw, vh) ==
    LET nd == ViewDataNew(vw, vh)
        snapshot == get_snapshot(resources, id)
        tw == TransferSize(snapshot.w, vw)
        th == TransferSize(snapshot.h, vh)
        texels == get_snapshot_rect(resources, id, RectOrigin(tw, th))
    IN  [fb |-> OpTransfer(nd.fb, into_bgra8(Pixels("rgba", texels)), tw, th,
                           RectOrigin(tw, th)),
         staging_fb |-> OpClear(nd.staging_fb, "T")]

\* Renderer::handle_view_dirty, first branch: the view data is re-created at
\* the view's size and the current snapshot is restored into it.
RecreateViewData(id, vw, vh) ==
    LET nd == ViewDataNew(vw, vh)
        snapshot == get_snapshot(resources, id)
        tw == TransferSize(snapshot.w, vw)
        th == TransferSize(snapshot.h, vh)
        texels == get_snapshot_rect(resources, id, RectOrigin(tw, th))
        fb1 == OpClear(nd.fb, "T")
        st1 == OpClear(nd.staging_fb, "T")
        fb2 == OpTransfer(fb1, into_bgra8(Pixels("rgba", texels)), tw, th, RectOrigin(tw, th))
    IN  [fb |-> fb2, staging_fb |-> st1]

\* Faulty variant of the fill: the view data is created anew and only its
\* final framebuffer is written.
FillRecreated(id) ==
    LET pixels == get_snapshot(resources, id).pixels
        nd == ViewDataNew(view_data[id].fb.w, view_data[id].fb.h)
    IN  [nd EXCEPT !.fb = OpFill(@, into_bgra8(pixels))]

\* Renderer::handle_view_dirty, second branch: the framebuffer is filled with
\* the pixels of the current snapshot; the view data stays.
FillViewData(id) ==
    LET pixels == get_snapshot(resources, id).pixels
    IN  [view_data[id] EXCEPT !.fb = OpFill(@, into_bgra8(pixels))]

\* Faulty variant of the reconciliation: the damaged flag is looked at first.
DamagedFirst(id) ==
    IF id \notin DOMAIN view_data \/ id \notin DOMAIN resources
    THEN Unchanged(TRUE)
    ELSE LET v == views[id]
             fb == view_data[id].fb
         IN  IF v.damaged
             THEN Outcome(MapInsert(view_data, id, FillViewData(id)),
                          staging_batch, final_batch, blending, FALSE, TRUE, FALSE,
                          "fill", <<get_snapshot(resources, id)>>)
             ELSE IF fb.w # v.fw \/ fb.h # v.fh
             THEN Outcome(MapInsert(view_data, id, RecreateViewData(id, v.fw, v.fh)),
                          staging_batch, final_batch, blending, FALSE, TRUE, FALSE,
                          "recreate",
                          <<get_snapshot(resources, id), TransferRect(id, v.fw, v.fh)>>)
             ELSE Unchanged(FALSE)

\* Renderer::handle_view_dirty
handle_view_dirty(id) ==
    IF id \notin DOMAIN view_data \/ id \notin DOMAIN resources
    THEN Unchanged(TRUE)
    ELSE LET v == views[id]
             fb == view_data[id].fb
         IN  IF fb.w # v.fw \/ fb.h # v.fh
             THEN Outcome(MapInsert(view_data, id, RecreateViewData(id, v.fw, v.fh)),
                          staging_batch, final_batch, blending, FALSE, TRUE, FALSE,
                          "recreate",
                          <<get_snapshot(resources, id), TransferRect(id, v.fw, v.fh)>>)
             ELSE IF v.damaged
             THEN Outcome(MapInsert(view_data, id, FillViewData(id)),
                          staging_batch, final_batch, blending, FALSE, TRUE, FALSE,
                          "fill", <<get_snapshot(resources, id)>>)
             ELSE Unchanged(FALSE)

\* Renderer::add_views, for one id.  The lock guard lives until the end of the
\* loop body, so it is held at the submit.
add_views(id) ==
    IF id \notin DOMAIN resources
    THEN Unchanged(TRUE)
    ELSE LET s == get_snapshot(resources, id)
             nd == ViewDataNew(s.w, s.h)
             fb1 == OpFill(OpClear(nd.fb, "T"), into_bgra8(s.pixels))
             st1 == OpClear(nd.staging_fb, "T")
         IN  Outcome(MapInsert(view_data, id, [fb |-> fb1, staging_fb |-> st1]),
                     staging_batch, final_batch, blending, FALSE, TRUE, TRUE,
                     "none", <<>>)

\* Faulty variant of the removal: it expects the entry to exist.
RemoveExisting(id) ==
    IF id \in DOMAIN view_data
    THEN Outcome(MapRemove(view_data, id), staging_batch, final_batch, blending,
                 FALSE, FALSE, FALSE, "none", <<>>)
    ELSE Unchanged(TRUE)

\* Effect::ViewRemoved
remove_view_data(id) ==
    Outcome(MapRemove(view_data, id), staging_batch, final_batch, blending,
            FALSE, FALSE, FALSE, "none", <<>>)

\* One iteration of the loop of Renderer::handle_effects.
handle_effect(eff) ==
    CASE eff.type = "ViewActivated" -> Unchanged(FALSE)
      [] eff.type = "ViewAdded" -> add_views(eff.id)
      [] eff.type = "ViewRemoved" -> remove_view_data(eff.id)
      [] eff.type \in {"ViewTouched", "ViewDamaged"} ->
            IF eff.id \in DOMAIN views THEN handle_view_dirty(eff.id) ELSE Unchanged(TRUE)
      [] eff.type = "ViewBlendingChanged" ->
            Outcome(view_data, staging_batch, final_batch, eff.blending,
                    FALSE, FALSE, FALSE, "none", <<>>)
      [] eff.type = "ViewPaintDraft" ->
            Outcome(view_data, staging_batch \o eff.shapes, final_batch, blending,
                    FALSE, FALSE, FALSE, "none", <<>>)
      [] eff.type = "ViewPaintFinal" ->
            Outcome(view_data, staging_batch, final_batch \o eff.shapes, blending,
                    FALSE, FALSE, FALSE, "none", <<>>)

\* Faulty variant of the drain: the effects are taken from the back.
LastEffect(q) == q[Len(q)]

\* effects.drain(..): the effect the loop takes next, and what is left.
NextEffect(q) == Head(q)
RestEffects(q) == Tail(q)

\* ------------------------------------------------ asynchronous read-back
\* The callback of the snapshot read-back of Renderer::frame: it takes the
\* write lock and pushes the data as the view's new snapshot, if the view is
\* still known to the resource manager.
RunCallback(res, cb) ==
    IF cb.kind = "snapshot" /\ cb.id \in DOMAIN res
    THEN [res EXCEPT ![cb.id] = push_snapshot(@, Pixels("bgra", cb.data), cb.w, cb.h)]
    ELSE res

RECURSIVE RunCallbacks(_, _)
RunCallbacks(res, cbs) ==
    IF cbs = <<>> THEN res ELSE RunCallbacks(RunCallback(res, Head(cbs)), Tail(cbs))

\* The digests stored for a tick.
StoredFor(e, t) == {i \in DOMAIN e.frames : e.frames[i].tick = t}

\* Execution::record, called by the callback of the digest read-back with the
\* frame read: while recording the digest is stored with its tick; while
\* replaying (DigestMode::Verify) it is compared with the one stored for that
\* tick, and the first mismatch fails the run.
record(e, cb) ==
    IF cb.kind # "digest" THEN e
    ELSE CASE e.mode = "recording" ->
                [e EXCEPT !.frames = Append(@, [tick |-> cb.tick, digest |-> Digest(cb.data)])]
           [] e.mode = "replaying" ->
                IF e.failure # <<>> \/ StoredFor(e, cb.tick) = {} THEN e
                ELSE LET stored == e.frames[CHOOSE i \in StoredFor(e, cb.tick) : TRUE].digest
                     IN  IF stored = Digest(cb.data)
                         THEN [e EXCEPT !.checked = Append(@, cb.tick)]
                         ELSE [e EXCEPT !.failure = <<[tick |-> cb.tick, stored |-> stored,
                                                       computed |-> Digest(cb.data)]>>]
           [] OTHER -> e

RECURSIVE RecordAll(_, _)
RecordAll(e, cbs) ==
    IF cbs = <<>> THEN e ELSE RecordAll(record(e, Head(cbs)), Tail(cbs))

\* A submit may complete read-backs submitted earlier: the callbacks of the
\* first k pending read-backs run inside it.
FireChoices(submit) == IF submit THEN 0..Len(pending) ELSE {0}
Fired(k) == SubSeq(pending, 1, k)

\* Faulty variant: a callback that has run stays registered.
KeepPending(k) == pending

\* The read-backs still pending after the first k callbacks have run (the
\* callback is an FnOnce moved into the read).
NotFired(k) == SubSeq(pending, k + 1, Len(pending))
TakesLock(k) == \E i \in 1..k : pending[i].kind = "snapshot"

\* Faulty variant: a mismatch is noted and the run goes on.
NoHalt(k) == FALSE

\* The run fails in this submit: a callback run in it found a mismatch.
Halts(k) == execution.failure = <<>> /\ RecordAll(execution, Fired(k)).failure # <<>>

Alive == ~panicked /\ ~deadlocked

\* for v in session.views.values() { if !v.ops.is_empty() { handle_view_ops(v) } }:
\* the ops of the views from id `i` on, in the order they are handled.
RECURSIVE ViewOpsFrom(_)
ViewOpsFrom(i) ==
    IF i > MaxViews THEN <<>>
    ELSE (IF i \in DOMAIN views
          THEN [j \in 1..Len(views[i].ops) |-> <<i, views[i].ops[j]>>]
          ELSE <<>>) \o ViewOpsFrom(i + 1)

\* Where Renderer::handle_effects returns to: init is done after it, frame
\* goes on with the view ops and then with the render passes.
AfterEffects(from, ops) ==
    IF from = "init" THEN "update" ELSE IF ops # <<>> THEN "ops" ELSE "render"

\* The guard of Renderer::frame.
FrameRuns == sstate = "running"

\* Faulty variant of the clear: the batch keeps its shapes.
KeepBatch(batch) == batch

\* shape2d::Batch::clear
ClearBatch(batch) == <<>>

\* Renderer::frame, up to the call of handle_effects.
FrameBegin ==
    /\ UNCHANGED <<boundVars, testVars, presentVars, execution>>
    /\ pc = "frame"
    /\ Alive
    /\ delivered' = queue
    /\ applied' = <<>>
    /\ flog' = <<>>
    /\ last' = NoLast
    /\ IF ~FrameRuns
       THEN /\ queue' = <<>>
            /\ todo' = <<>>
            /\ phase' = "skipped"
            /\ pc' = "cleanup"
            /\ UNCHANGED <<staging_batch, final_batch>>
       ELSE /\ staging_batch' = ClearBatch(staging_batch)
            /\ final_batch' = ClearBatch(final_batch)
            /\ todo' = ViewOpsFrom(1)
            /\ phase' = "running"
            /\ pc' = IF queue # <<>> THEN "effects" ELSE AfterEffects("frame", todo')
            /\ UNCHANGED queue
    /\ UNCHANGED <<sessionVars, resources, view_data, paste, blending, pending,
                   panicked, deadlocked, pasteQueued, pasteDrawn, stroke, painted>>

\* Faulty variant: the flags of the reconciled view are cleared by the renderer.
FlagsCleared(eff) ==
    IF eff.type \in {"ViewTouched", "ViewDamaged"} /\ eff.id \in DOMAIN views
    THEN [views EXCEPT ![eff.id] = [@ EXCEPT !.dirty = FALSE, !.damaged = FALSE]]
    ELSE views

\* The views after an effect has been handled: handle_effects has the session
\* as `&Session` and handle_view_dirty the view as `&View`, the view model is
\* read and stays as it is.
ViewsAfterEffect(eff) == views

\* One iteration of handle_effects, called by init or by frame.
HandleEffect ==
    /\ UNCHANGED <<boundVars, testVars, presentVars>>
    /\ pc \in {"init", "effects"}
    /\ Alive
    /\ queue # <<>>
    /\ LET eff == NextEffect(queue)
           rest == RestEffects(queue)
           o == handle_effect(eff)
       IN  \E k \in FireChoices(o.submit) :
             IF o.panic
             THEN /\ panicked' = TRUE
                  /\ UNCHANGED <<sessionVars, resources, rendererVars, pc, queue, todo,
                                 pending, deadlocked, execution, historyVars>>
             ELSE IF o.locked /\ TakesLock(k)
             THEN /\ deadlocked' = TRUE
                  /\ UNCHANGED <<sessionVars, resources, rendererVars, pc, queue, todo,
                                 pending, panicked, execution, historyVars>>
             ELSE /\ view_data' = o.view_data
                  /\ staging_batch' = o.staging_batch
                  /\ final_batch' = o.final_batch
                  /\ blending' = o.blending
                  /\ resources' = RunCallbacks(resources, Fired(k))
                  /\ execution' = RecordAll(execution, Fired(k))
                  /\ pending' = NotFired(k)
                  /\ queue' = rest
                  /\ pc' = IF Halts(k) THEN "exit"
                            ELSE IF rest # <<>> THEN pc ELSE AfterEffects(pc, todo)
                  /\ applied' = Append(applied, eff)
                  /\ flog' = Append(flog, "effect")
                  /\ last' = [type |-> eff.type, id |-> eff.id, branch |-> o.branch,
                              snap |-> o.snap, had |-> eff.id \in DOMAIN view_data,
                              locked |-> o.submit /\ o.locked]
                  /\ views' = ViewsAfterEffect(eff)
                  /\ UNCHANGED <<sstate, active, nextId, pasting, selection, effects,
                                 ncmd, tick, paste, todo, panicked, deadlocked,
                                 delivered, phase, pasteQueued, pasteDrawn, stroke, painted>>

\* ------------------------------------------------ Renderer: view ops
OpOutcome(vd, p, panic, submit, locked) ==
    [view_data |-> vd, paste |-> p, panic |-> panic, submit |-> submit, locked |-> locked]

\* ViewOp::Yank: the paste texture takes the size of the yanked rectangle and
\* is filled with the snapshot pixels of it.  The lock is held at the submit.
yank(id, src) ==
    LET pixels == get_snapshot_rect(resources, id, src)
        w == RectW(src)
        h == RectH(src)
        resized == paste.texture.w # w \/ paste.texture.h # h
        texture == IF resized THEN framebuffer(w, h) ELSE paste.texture
    IN  [paste EXCEPT !.ready = IF resized THEN FALSE ELSE @,
                      !.texture = OpFill(texture, pixels)]

\* One iteration of the loop of Renderer::handle_view_ops.
handle_view_op(id, op) ==
    IF id \notin DOMAIN view_data
    THEN OpOutcome(view_data, paste, TRUE, FALSE, FALSE)
    ELSE CASE op.op = "Clear" ->
                OpOutcome([view_data EXCEPT ![id].fb = OpClear(@, SwapRB(op.color))],
                          paste, FALSE, TRUE, FALSE)
           [] op.op = "Blit" ->
                OpOutcome([view_data EXCEPT ![id].fb = OpBlit(@, op.src, op.dst)],
                          paste, FALSE, TRUE, FALSE)
           [] op.op = "Yank" ->
                OpOutcome(view_data, yank(id, op.src), id \notin DOMAIN resources, TRUE, TRUE)
           [] op.op = "Paste" ->
                OpOutcome(view_data, [paste EXCEPT !.outputs = Append(@, op.dst)],
                          FALSE, FALSE, FALSE)

HandleViewOp ==
    /\ UNCHANGED <<boundVars, testVars, presentVars>>
    /\ pc = "ops"
    /\ Alive
    /\ todo # <<>>
    /\ LET id == Head(todo)[1]
           op == Head(todo)[2]
           o == handle_view_op(id, op)
       IN  \E k \in FireChoices(o.submit) :
             IF o.panic
             THEN /\ panicked' = TRUE
                  /\ UNCHANGED <<sessionVars, resources, rendererVars, pc, queue, todo,
                                 pending, deadlocked, execution, historyVars>>
             ELSE IF o.locked /\ TakesLock(k)
             THEN /\ deadlocked' = TRUE
                  /\ UNCHANGED <<sessionVars, resources, rendererVars, pc, queue, todo,
                                 pending, panicked, execution, historyVars>>
             ELSE /\ view_data' = o.view_data
                  /\ paste' = o.paste
                  /\ resources' = RunCallbacks(resources, Fired(k))
                  /\ execution' = RecordAll(execution, Fired(k))
                  /\ pending' = NotFired(k)
                  /\ todo' = Tail(todo)
                  /\ pc' = IF Halts(k) THEN "exit"
                            ELSE IF Tail(todo) # <<>> THEN "ops" ELSE "render"
                  /\ flog' = Append(flog, "op")
                              \o (IF o.paste.texture.w # paste.texture.w
                                      \/ o.paste.texture.h # paste.texture.h
                                  THEN <<"texture">> ELSE <<>>)
                  /\ UNCHANGED <<sessionVars, staging_batch, final_batch, blending, queue,
                                 panicked, deadlocked, delivered, applied, last, phase,
                                 pasteQueued, pasteDrawn, stroke, painted>>

\* ------------------------------------------- Renderer: render passes
\* draw::draw_paste: while pasting, one quad over the selection (the selection
\* includes its last row and column).
draw_paste ==
    IF pasting /\ selection # <<>>
    THEN LET sel == selection[1]
         IN  <<[x1 |-> sel.x1, y1 |-> sel.y1, x2 |-> sel.x2 + 1, y2 |-> sel.y2 + 1]>>
    ELSE <<>>

\* Faulty variant of the display pass: it clears instead of loading.
ClearPassOp(buf) == OpClear(buf, "T")

\* PassOp::Clear(Rgba::TRANSPARENT) on the staging framebuffer,
\* PassOp::Load() on the final one.
StagingPassOp(buf) == OpClear(buf, "T")
FinalPassOp(buf) == buf

\* Faulty variant: the view passes are recorded on every view's framebuffers.
PassEveryView == DOMAIN view_data

\* The views whose framebuffers the two view passes of a frame are recorded on.
PassTargets == {active}

\* Faulty variant: the preview is drawn whether the texture is ready or not.
PreviewAlways(paste_batch) == paste_batch # <<>>

\* "if let Some(buf) = paste_buf { if self.paste.ready { .. draw .. } }": the
\* paste preview is drawn when there is a paste batch and the texture is ready.
PreviewDrawn(paste_batch) == paste_batch # <<>> /\ paste.ready

\* "Draw to view staging buffer".
StagingPass(buf, paste_batch, vw, vh) ==
    LET p1 == render_brush_strokes(StagingPassOp(buf), staging_batch, "default", vw, vh)
    IN  IF PreviewDrawn(paste_batch)
        THEN DrawPasteQuads(p1, paste.texture, paste_batch, vw, vh)
        ELSE p1

\* Faulty variant of the display pass: the final shapes are drawn with the
\* default blending whatever the blend mode.
FinalPassDefault(buf, vw, vh) ==
    LET p1 == render_brush_strokes(FinalPassOp(buf), final_batch, "default", vw, vh)
    IN  DrawPasteQuads(p1, paste.texture, paste.outputs, vw, vh)

\* "Draw to view display buffer".
FinalPass(buf, vw, vh) ==
    LET p1 == render_brush_strokes(FinalPassOp(buf), final_batch, blending, vw, vh)
    IN  DrawPasteQuads(p1, paste.texture, paste.outputs, vw, vh)

\* The committed strokes of the active view after the display pass: those it
\* had and those this frame's final batch painted, as far as the framebuffer
\* still shows them.
StrokesAfter(fb, v) ==
    {p \in stroke[active] \cup {<<s.x, s.y>> : s \in {final_batch[i] : i \in 1..Len(final_batch)}} :
        /\ p[1] < v.fw /\ p[2] < v.fh
        /\ fb.w = v.fw /\ fb.h = v.fh
        /\ fb.px[p] = "Q"}

\* The pixels of the active view that this frame's final batch painted with the
\* brush colour and that the framebuffer shows after the display pass.
PaintedBy(fb, v) ==
    {p \in {<<final_batch[i].x, final_batch[i].y>> :
                i \in {j \in 1..Len(final_batch) : final_batch[j].c = "P"}} :
        /\ p[1] < v.fw /\ p[2] < v.fh
        /\ fb.w = v.fw /\ fb.h = v.fh
        /\ fb.px[p] = "Q"}

\* Where frame goes on after the snapshot read-back, or after the passes when
\* the active view is not dirty: to the digest read-back unless the execution
\* is Normal.
AfterSnapshot == IF is_normal(execution) THEN "cleanup" ELSE "digest"

\* Renderer::frame from ctx.draw to r.present: the passes are recorded and the
\* frame is submitted to the device.
Present ==
    /\ UNCHANGED <<boundVars, testVars, presentVars>>
    /\ pc = "render"
    /\ Alive
    /\ IF active \notin DOMAIN view_data
       THEN /\ panicked' = TRUE
            /\ UNCHANGED <<sessionVars, resources, rendererVars, pc, queue, todo,
                           pending, deadlocked, execution, historyVars>>
       ELSE LET v == views[active]
                paste_batch == draw_paste
                nvd == [id \in DOMAIN view_data |->
                          IF id \in PassTargets
                          THEN [fb |-> FinalPass(view_data[id].fb, v.fw, v.fh),
                                staging_fb |-> StagingPass(view_data[id].staging_fb,
                                                           paste_batch, v.fw, v.fh)]
                          ELSE view_data[id]]
            IN  \E k \in FireChoices(TRUE) :
                  /\ view_data' = nvd
                  /\ paste' = [paste EXCEPT !.ready = IF paste_batch # <<>> THEN TRUE ELSE @,
                                            !.outputs = <<>>]
                  /\ resources' = RunCallbacks(resources, Fired(k))
                  /\ execution' = RecordAll(execution, Fired(k))
                  /\ pending' = NotFired(k)
                  /\ pc' = IF Halts(k) THEN "exit"
                            ELSE IF v.dirty THEN "readback"
                            ELSE AfterSnapshot
                  /\ flog' = Append(flog, "pass")
                              \o (IF PreviewDrawn(paste_batch) THEN <<"preview">> ELSE <<>>)
                  /\ pasteDrawn' = pasteDrawn + Len(paste.outputs)
                  /\ stroke' = [stroke EXCEPT ![active] = StrokesAfter(nvd[active].fb, v)]
                  /\ painted' = [painted EXCEPT ![active] = @ \cup PaintedBy(nvd[active].fb, v)]
                  /\ last' = NoLast
                  /\ UNCHANGED <<sessionVars, staging_batch, final_batch, blending, queue,
                                 todo, panicked, deadlocked, delivered, applied, phase,
                                 pasteQueued>>

\* "If active view is dirty, record a snapshot of it": the read-back of the
\* final framebuffer is submitted; its callback runs in some later submit.
ReadSnapshot ==
    /\ UNCHANGED <<boundVars, testVars, presentVars>>
    /\ pc = "readback"
    /\ Alive
    /\ \E k \in FireChoices(TRUE) :
         /\ Len(pending) - k < MaxPending
         /\ resources' = RunCallbacks(resources, Fired(k))
         /\ execution' = RecordAll(execution, Fired(k))
         /\ pending' = Append(NotFired(k),
                              [kind |-> "snapshot", id |-> active,
                               data |-> view_data[active].fb,
                               w |-> views[active].fw, h |-> views[active].fh,
                               tick |-> tick])
         /\ pc' = IF Halts(k) THEN "exit" ELSE AfterSnapshot
    /\ UNCHANGED <<sessionVars, rendererVars, queue, todo, panicked, deadlocked,
                   historyVars>>

\* The ids of a map in the order its iterator yields them (BTreeMap: ascending).
Ids(S) ==
    CHOOSE seq \in [1..Cardinality(S) -> S] :
        \A i, j \in 1..Cardinality(S) : i < j => seq[i] < seq[j]

\* Renderer::render_views: view_data.iter().zip(view_transforms_buf.offsets()).
\* The transforms were pushed by update_view_transforms in the order of
\* session.views.values(); each pair is <<id of the view data drawn, id of the
\* view whose transform it is drawn with>>.
render_views ==
    LET d == Ids(DOMAIN view_data)
        t == Ids(DOMAIN views)
    IN  [i \in 1..Min(Len(d), Len(t)) |-> <<d[i], t[i]>>]

\* What render_views draws of one view into the screen framebuffer: the final
\* framebuffer and the staging framebuffer over it.
Compose(d) ==
    [c \in DOMAIN d.fb.px |->
        IF c \in DOMAIN d.staging_fb.px /\ d.staging_fb.px[c] # "T"
        THEN d.staging_fb.px[c] ELSE d.fb.px[c]]

\* The screen framebuffer after the passes of a frame.
Screen == [id \in DOMAIN view_data |-> Compose(view_data[id])]

\* draw::draw_ui, the message: the session's message goes into the text batch
\* unless it is a replay or a debug message ("none": there is no message).
draw_ui(message) ==
    IF message \notin {"none", "replay", "debug"} THEN <<message>> ELSE <<>>

\* draw::draw_overlay: the recording or replaying banner (with the event at the
\* front of the replay queue), the frame-time line when the debug setting is
\* on, and the replay and debug messages.
draw_overlay(e, avg_frametime, debug, message) ==
    (CASE e.mode = "recording" -> <<"recording">>
       [] e.mode = "replaying" /\ e.events # <<>> -> <<"replaying", Head(e.events).event.cmd>>
       [] OTHER -> <<>>)
    \o (IF debug THEN <<"frametime", ToString(avg_frametime)>> ELSE <<>>)
    \o (IF message = "replay" \/ (message = "debug" /\ debug) THEN <<message>> ELSE <<>>)

\* DrawContext::draw: the batches of a frame that depend on the message, the
\* execution and the frame time.
DrawContext(e, avg_frametime, debug, message) ==
    [text_batch |-> draw_ui(message),
     overlay_batch |-> draw_overlay(e, avg_frametime, debug, message)]

\* Faulty variant of the screen pass: the overlay is drawn into the screen
\* framebuffer too.
ScreenPassOverlay(ctx) ==
    [views |-> Screen, text |-> ctx.text_batch \o ctx.overlay_batch]

\* The pass on the screen framebuffer: the views and the text batch.
ScreenPass(ctx) == [views |-> Screen, text |-> ctx.text_batch]

\* The pass on the swap chain image: the screen framebuffer, and the overlay
\* batch if the debug setting is on or the execution is not Normal.
PresentPass(ctx, e, debug) ==
    [screen |-> ScreenPass(ctx),
     overlay |-> IF debug \/ ~is_normal(e) THEN ctx.overlay_batch ELSE <<>>]

\* "if !execution.borrow().is_normal()": the read-back of the screen
\* framebuffer is submitted; its callback hands the frame to Execution::record.
ReadDigest ==
    /\ UNCHANGED <<boundVars, testVars, presentVars>>
    /\ pc = "digest"
    /\ Alive
    /\ \E k \in FireChoices(TRUE), avg_frametime \in 1..MaxFrameTime :
         /\ Len(pending) - k < MaxPending
         /\ resources' = RunCallbacks(resources, Fired(k))
         /\ execution' = RecordAll(execution, Fired(k))
         /\ pending' = Append(NotFired(k),
                              [kind |-> "digest", id |-> 0,
                               data |-> ScreenPass(DrawContext(execution, avg_frametime,
                                                               FALSE, "none")),
                               w |-> 0, h |-> 0, tick |-> tick])
         /\ pc' = IF Halts(k) THEN "exit" ELSE "cleanup"
    /\ UNCHANGED <<sessionVars, rendererVars, queue, todo, panicked, deadlocked,
                   historyVars>>

\* ---------------------------------------------------- session (modelled)
\* The end of the tick: the flags and the op queues of the views are reset,
\* the next update starts.
Cleanup ==
    /\ UNCHANGED <<boundVars, testVars, presentVars, execution>>
    /\ pc = "cleanup"
    /\ Alive
    /\ views' = [id \in DOMAIN views |->
                    [views[id] EXCEPT !.dirty = FALSE, !.damaged = FALSE, !.ops = <<>>]]
    /\ pc' = "update"
    /\ ncmd' = 0
    /\ tick' = tick + 1
    /\ phase' = "none"
    /\ UNCHANGED <<sstate, active, nextId, pasting, selection, effects, resources,
                   rendererVars, queue, todo, pending, panicked, deadlocked,
                   delivered, applied, flog, last, pasteQueued, pasteDrawn, stroke, painted>>

\* The effects the update ends with: one for each view touched or damaged.
RECURSIVE TouchEffectsFrom(_)
TouchEffectsFrom(i) ==
    IF i > MaxViews THEN <<>>
    ELSE (IF i \in DOMAIN views /\ views[i].dirty THEN <<ViewTouched(i)>>
          ELSE IF i \in DOMAIN views /\ views[i].damaged THEN <<ViewDamaged(i)>>
          ELSE <<>>) \o TouchEffectsFrom(i + 1)

\* The update returns its effects; the main loop hands them to frame.
EndUpdate ==
    /\ UNCHANGED <<boundVars, testVars, presentVars, execution>>
    /\ pc = "update"
    /\ Alive
    /\ tick < horizon
    /\ is_normal(execution) \/ ncmd = 1
    /\ queue' = effects \o TouchEffectsFrom(1)
    /\ effects' = <<>>
    /\ pc' = "frame"
    /\ UNCHANGED <<sstate, views, active, nextId, pasting, selection, ncmd, tick,
                   resources, rendererVars, todo, pending, panicked, deadlocked,
                   historyVars>>

\* An input is handled by the running update.
Input ==
    /\ pc = "update"
    /\ Alive
    /\ tick < horizon
    /\ ncmd < MaxCmds
    /\ budget > 0
    /\ ncmd' = ncmd + 1
    /\ budget' = budget - 1
    /\ UNCHANGED <<horizon, testVars, tick, nextId, rendererVars, controlVars, delivered, applied, flog, last,
                   phase, pasteDrawn, presentVars, execution>>

Running == sstate = "running"

Touch(v) == [v EXCEPT !.dirty = TRUE]

YankRects == {RectOrigin(1, 1), RectOrigin(MaxDim, MaxDim)}
BlitSrc == RectOrigin(1, 1)
BlitDst == [x1 |-> MaxDim - 1, y1 |-> MaxDim - 1, x2 |-> MaxDim, y2 |-> MaxDim]

\* The window loses or regains the focus.
CmdPause ==
    /\ Input /\ Running
    /\ sstate' = "paused"
    /\ UNCHANGED <<views, active, pasting, selection, effects, resources, pasteQueued, stroke, painted>>

CmdResume ==
    /\ Input /\ ~Running
    /\ sstate' = "running"
    /\ UNCHANGED <<views, active, pasting, selection, effects, resources, pasteQueued, stroke, painted>>

\* A view is opened: it gets a fresh id and a blank first snapshot, and becomes
\* the active view.
CmdAddView ==
    /\ pc = "update" /\ Alive /\ tick < horizon /\ ncmd < MaxCmds /\ Running
    /\ budget > 0
    /\ budget' = budget - 1
    /\ UNCHANGED <<horizon, testVars, presentVars, execution>>
    /\ nextId <= MaxViews
    /\ \E w \in Dims, h \in Dims :
         /\ views' = MapInsert(views, nextId, View(w, h))
         /\ resources' = MapInsert(resources, nextId,
                                   <<Snapshot(w, h, Pixels("rgba", Blank(w, h)))>>)
    /\ active' = nextId
    /\ nextId' = nextId + 1
    /\ effects' = effects \o <<ViewAdded(nextId), ViewActivated(nextId)>>
    /\ ncmd' = ncmd + 1
    /\ UNCHANGED <<sstate, pasting, selection, tick, rendererVars, controlVars,
                   historyVars>>

\* A view is closed (never the last one).
CmdRemoveView ==
    /\ Input /\ Running
    /\ Cardinality(DOMAIN views) > 1
    /\ \E id \in DOMAIN views :
         LET left == MapRemove(views, id)
             other == CHOOSE i \in DOMAIN left : \A j \in DOMAIN left : i <= j
         IN  /\ views' = left
             /\ resources' = MapRemove(resources, id)
             /\ active' = IF id = active THEN other ELSE active
             /\ effects' = effects \o <<ViewRemoved(id)>>
                              \o (IF id = active THEN <<ViewActivated(other)>> ELSE <<>>)
             /\ stroke' = [stroke EXCEPT ![id] = {}]
             /\ painted' = [painted EXCEPT ![id] = {}]
    /\ UNCHANGED <<sstate, pasting, selection, pasteQueued>>

CmdActivate ==
    /\ Input /\ Running
    /\ \E id \in DOMAIN views \ {active} :
         /\ active' = id
         /\ effects' = effects \o <<ViewActivated(id)>>
    /\ UNCHANGED <<sstate, views, pasting, selection, resources, pasteQueued, stroke, painted>>

\* The active view is resized to w x h.
Resize(w, h) ==
    /\ <<w, h>> # <<views[active].fw, views[active].fh>>
    /\ views' = [views EXCEPT ![active] = Touch([@ EXCEPT !.fw = w, !.fh = h])]
    /\ stroke' = [stroke EXCEPT ![active] = {p \in @ : p[1] < w /\ p[2] < h}]
    /\ UNCHANGED <<sstate, active, pasting, selection, effects, resources, pasteQueued,
                   painted>>

CmdResize ==
    /\ Input /\ Running
    /\ \E w \in Dims, h \in Dims : Resize(w, h)

\* The active view is resized, possibly collapsed to no width or no height.
AnyDims == {0} \cup Dims

CmdResizeAny ==
    /\ Input /\ Running
    /\ \E w \in AnyDims, h \in AnyDims : Resize(w, h)

\* A brush stroke in progress.
CmdPaintDraft ==
    /\ Input /\ Running
    /\ \E p \in Points :
         effects' = effects \o <<ViewPaintDraft(<<Shape(p[1], p[2], "P")>>)>>
    /\ UNCHANGED <<sstate, views, active, pasting, selection, resources, pasteQueued, stroke, painted>>

\* A brush stroke at p is committed in colour c (with the eraser, the colour
\* is transparent).
PaintFinal(p, c) ==
    /\ effects' = effects \o <<ViewPaintFinal(<<Shape(p[1], p[2], c)>>)>>
    /\ stroke' = [stroke EXCEPT ![active] = IF c = "T" THEN @ \ {p} ELSE @]
    /\ views' = [views EXCEPT ![active] = Touch(@)]
    /\ UNCHANGED <<sstate, active, pasting, selection, resources, pasteQueued, painted>>

CmdPaintFinal ==
    /\ Input /\ Running
    /\ \E p \in Points, c \in {"P", "T"} : PaintFinal(p, c)

CmdBlending ==
    /\ Input /\ Running
    /\ \E bl \in Blendings : effects' = effects \o <<ViewBlendingChanged(bl)>>
    /\ UNCHANGED <<sstate, views, active, pasting, selection, resources, pasteQueued, stroke, painted>>

\* Undo: the previous snapshot becomes the current one; the view takes its
\* size and is damaged.
CmdUndo ==
    /\ Input /\ Running
    /\ Len(resources[active]) > 1
    /\ LET hist == SubSeq(resources[active], 1, Len(resources[active]) - 1)
           s == hist[Len(hist)]
       IN  /\ resources' = [resources EXCEPT ![active] = hist]
           /\ views' = [views EXCEPT ![active] = [@ EXCEPT !.fw = s.w, !.fh = s.h,
                                                          !.damaged = TRUE]]
    /\ stroke' = [stroke EXCEPT ![active] = {}]
    /\ UNCHANGED painted
    /\ UNCHANGED <<sstate, active, pasting, selection, effects, pasteQueued>>

CmdYank ==
    /\ Input /\ Running
    /\ \E r \in YankRects :
         /\ views' = [views EXCEPT ![active].ops = Append(@, ViewOpYank(r))]
         /\ selection' = <<[x1 |-> r.x1, y1 |-> r.y1, x2 |-> r.x2 - 1, y2 |-> r.y2 - 1]>>
    /\ pasting' = TRUE
    /\ UNCHANGED <<sstate, active, effects, resources, pasteQueued, stroke, painted>>

CmdPaste ==
    /\ Input /\ Running
    /\ pasting
    /\ LET sel == selection[1]
           dst == [x1 |-> sel.x1, y1 |-> sel.y1, x2 |-> sel.x2 + 1, y2 |-> sel.y2 + 1]
       IN  views' = [views EXCEPT ![active] = Touch([@ EXCEPT !.ops = Append(@, ViewOpPaste(dst))])]
    /\ pasting' = FALSE
    /\ pasteQueued' = pasteQueued + 1
    /\ stroke' = [stroke EXCEPT ![active] = {}]
    /\ UNCHANGED painted
    /\ UNCHANGED <<sstate, active, selection, effects, resources>>

CmdClear ==
    /\ Input /\ Running
    /\ \E c \in {"T", "P"} :
         views' = [views EXCEPT ![active] = Touch([@ EXCEPT !.ops = Append(@, ViewOpClear(c))])]
    /\ stroke' = [stroke EXCEPT ![active] = {}]
    /\ UNCHANGED painted
    /\ UNCHANGED <<sstate, active, pasting, selection, effects, resources, pasteQueued>>

CmdBlit ==
    /\ Input /\ Running
    /\ views' = [views EXCEPT ![active] = Touch([@ EXCEPT !.ops = Append(@, ViewOpBlit(BlitSrc, BlitDst))])]
    /\ stroke' = [stroke EXCEPT ![active] = {}]
    /\ UNCHANGED painted
    /\ UNCHANGED <<sstate, active, pasting, selection, effects, resources, pasteQueued>>

\* ------------------------------------------------- update_present_mode
\* Faulty variant: the new swap chain gets the old one's sizes the wrong way
\* round.
SwapChainTransposed(mode) == SwapChain(swap_chain.height, swap_chain.width, mode)

\* The swap chain update_present_mode creates: the size of the old one, the
\* new mode.
NewSwapChain(mode) == SwapChain(swap_chain.width, swap_chain.height, mode)

\* Renderer::update_present_mode, called by the main loop between two frames.
UpdatePresentMode ==
    /\ pc = "update" /\ Alive
    /\ tick < horizon
    /\ ncmd < MaxCmds
    /\ budget > 0
    /\ budget' = budget - 1
    /\ ncmd' = ncmd + 1
    /\ \E mode \in PresentModes :
         IF present_mode = mode
         THEN UNCHANGED presentVars
         ELSE /\ present_mode' = mode
              /\ swap_chain' = NewSwapChain(mode)
    /\ UNCHANGED <<sstate, views, active, nextId, pasting, selection, effects, tick,
                   resources, rendererVars, controlVars, horizon, testVars, execution, historyVars>>

\* ------------------------------------------- record and replay (modelled)
\* The input events of a scripted run: committed strokes and resizes.
Event(cmd, a, b) == [cmd |-> cmd, a |-> a, b |-> b]
Events ==
    {Event("paint", p, "P") : p \in Points}
        \cup {Event("resize", <<w, h>>, "T") : w \in Dims, h \in Dims}

\* The dispatch path to the session, shared by the window events and the
\* replayed ones.
Dispatch(e) ==
    CASE e.cmd = "paint" -> PaintFinal(e.a, e.b)
      [] e.cmd = "resize" -> Resize(e.a[1], e.a[2])

\* Execution::Replaying { events, .. }: the event at the front of the queue is
\* the one being replayed.
NextEvent(events) == Head(events)

\* A scripted run has one input event in every tick.
Scripted ==
    /\ pc = "update" /\ Alive /\ Running
    /\ tick < horizon
    /\ ncmd = 0
    /\ ncmd' = 1
    /\ UNCHANGED <<horizon, testVars, tick, nextId, rendererVars, controlVars, delivered, applied,
                   flog, last, phase, pasteDrawn, presentVars>>

\* Recording: the accepted event is logged, then dispatched to the session.
RecordEvent ==
    /\ Scripted
    /\ execution.mode = "recording"
    /\ budget > 0
    /\ budget' = budget - 1
    /\ \E e \in Events :
         /\ execution' = [execution EXCEPT !.log = Append(@, [tick |-> tick, event |-> e])]
         /\ Dispatch(e)

\* Replaying: the next logged event is taken from the queue and dispatched.
ReplayEvent ==
    /\ Scripted
    /\ execution.mode = "replaying"
    /\ execution.events # <<>>
    /\ UNCHANGED budget
    /\ LET e == NextEvent(execution.events)
       IN  /\ execution' = [execution EXCEPT
                                !.events = SubSeq(@, 2, Len(@)),
                                !.log = Append(@, [tick |-> tick, event |-> e.event])]
           /\ Dispatch(e.event)

\* Replaying terminates when the event queue is exhausted.
ReplayEnd ==
    /\ pc = "update" /\ Alive
    /\ ncmd = 0
    /\ execution.mode = "replaying"
    /\ execution.events = <<>>
    /\ execution' = [execution EXCEPT !.mode = "normal"]
    /\ pc' = "exit"
    /\ UNCHANGED <<sessionVars, resources, rendererVars, queue, todo, pending, panicked,
                   deadlocked, boundVars, testVars, presentVars, historyVars>>

\* The recording is stopped, and the log is replayed in Verify mode against a
\* freshly initialised session and renderer.
StartReplay ==
    /\ pc = "update" /\ Alive
    /\ ncmd = 0
    /\ execution.mode = "recording"
    /\ execution.log # <<>>
    /\ sstate' = "running"
    /\ views' = MapInsert(EmptyMap, 1, View(MaxDim, MaxDim))
    /\ active' = 1
    /\ nextId' = 2
    /\ pasting' = FALSE
    /\ selection' = <<>>
    /\ effects' = <<>>
    /\ ncmd' = 0
    /\ tick' = 0
    /\ resources' = MapInsert(EmptyMap, 1,
                      <<Snapshot(MaxDim, MaxDim, Pixels("rgba", Blank(MaxDim, MaxDim)))>>)
    /\ view_data' = EmptyMap
    /\ paste' = [texture |-> framebuffer(1, 1), outputs |-> <<>>, ready |-> FALSE]
    /\ staging_batch' = <<>>
    /\ final_batch' = <<>>
    /\ blending' = "default"
    /\ pc' = "init"
    /\ queue' = <<ViewAdded(1), ViewActivated(1)>>
    /\ todo' = <<>>
    /\ pending' = <<>>
    /\ panicked' = FALSE
    /\ deadlocked' = FALSE
    /\ present_mode' = "vsync"
    /\ swap_chain' = SwapChain(2 * MaxDim, MaxDim, "vsync")
    /\ delivered' = <<ViewAdded(1), ViewActivated(1)>>
    /\ applied' = <<>>
    /\ flog' = <<>>
    /\ last' = NoLast
    /\ phase' = "init"
    /\ pasteQueued' = 0
    /\ pasteDrawn' = 0
    /\ stroke' = [i \in ViewIds |-> {}]
    /\ painted' = [i \in ViewIds |-> {}]
    /\ execution' = Replaying(execution.log, execution.frames)
    /\ UNCHANGED <<boundVars, testVars>>

\* ------------------------------------------------------- specification
Next ==
    \/ CmdPause \/ CmdResume \/ CmdAddView \/ CmdRemoveView \/ CmdActivate
    \/ CmdResize \/ CmdPaintDraft \/ CmdPaintFinal \/ CmdBlending \/ CmdUndo
    \/ CmdYank \/ CmdPaste \/ CmdClear \/ CmdBlit \/ UpdatePresentMode
    \/ EndUpdate \/ FrameBegin \/ HandleEffect \/ HandleViewOp \/ Present
    \/ ReadSnapshot \/ Cleanup

Spec == Init /\ [][Next]_vars

\* Yank and paste sessions, with the window losing the focus: longer runs of
\* fewer kinds of input.
InitPaste ==
    /\ InitRenderer
    /\ execution = Normal
    /\ budget = MaxPasteInputs
    /\ horizon = MaxTicks

NextPaste ==
    \/ CmdYank \/ CmdPaste \/ CmdPause \/ CmdResume
    \/ EndUpdate \/ FrameBegin \/ HandleEffect \/ HandleViewOp \/ Present
    \/ ReadSnapshot \/ Cleanup

SpecPaste == InitPaste /\ [][NextPaste]_vars

\* Views opened, closed and activated, with the window losing the focus.
InitViews ==
    /\ InitRenderer
    /\ execution = Normal
    /\ budget = MaxViewInputs
    /\ horizon = MaxTicks

NextViews ==
    \/ CmdAddView \/ CmdRemoveView \/ CmdActivate \/ CmdPause \/ CmdResume
    \/ EndUpdate \/ FrameBegin \/ HandleEffect \/ Present \/ Cleanup

SpecViews == InitViews /\ [][NextViews]_vars

\* A scripted input sequence is recorded with frame digests, then the log is
\* replayed in Verify mode.
InitReplay ==
    /\ InitRenderer
    /\ execution = Recording
    /\ budget = MaxLog
    /\ horizon = MaxLog

NextReplay ==
    \/ RecordEvent \/ StartReplay \/ ReplayEvent \/ ReplayEnd
    \/ EndUpdate \/ FrameBegin \/ HandleEffect \/ Present
    \/ ReadSnapshot \/ ReadDigest \/ Cleanup

SpecReplay == InitReplay /\ [][NextReplay]_vars

\* Views resized down to nothing and back, with strokes and undo.
InitZero ==
    /\ InitRenderer
    /\ execution = Normal
    /\ budget = MaxZeroInputs
    /\ horizon = MaxTicks

NextZero ==
    \/ CmdResizeAny \/ CmdPaintFinal \/ CmdUndo
    \/ EndUpdate \/ FrameBegin \/ HandleEffect \/ Present
    \/ ReadSnapshot \/ Cleanup

SpecZero == InitZero /\ [][NextZero]_vars

\* Strokes, drafts and erasures with changes of the blend mode.
InitBlend ==
    /\ InitRenderer
    /\ execution = Normal
    /\ budget = MaxBlendInputs
    /\ horizon = MaxTicks

NextBlend ==
    \/ CmdPaintDraft \/ CmdPaintFinal \/ CmdBlending
    \/ EndUpdate \/ FrameBegin \/ HandleEffect \/ Present
    \/ ReadSnapshot \/ Cleanup

SpecBlend == InitBlend /\ [][NextBlend]_vars

\* ------------------------------------------------- tests/main.rs: run
\* fs::remove_file("/tmp/rx.png").ok(): the first statement of run, before the
\* mutex is taken.
TestRemove ==
    /\ \E t \in Tests :
         /\ tests[t] = "start"
         /\ tests' = [tests EXCEPT ![t] = "removed"]
    /\ rx_png' = FALSE
    /\ UNCHANGED <<sessionVars, resources, rendererVars, controlVars, boundVars,
                   presentVars, execution, historyVars>>

\* The configuration of the test is read and parsed; run returns the error if
\* that fails.
TestConfig ==
    /\ \E t \in Tests :
         /\ tests[t] = "removed"
         /\ \E ok \in BOOLEAN :
              tests' = [tests EXCEPT ![t] = IF ok THEN "configured" ELSE "done"]
    /\ UNCHANGED <<rx_png, sessionVars, resources, rendererVars, controlVars, boundVars,
                   presentVars, execution, historyVars>>

\* let _guard = MUTEX.lock(); rx::init(..): the scenario starts executing
\* once no other test holds the mutex.
TestLock ==
    /\ \E t \in Tests :
         /\ tests[t] = "configured"
         /\ \A u \in Tests : tests[u] \notin {"init", "saved"}
         /\ tests' = [tests EXCEPT ![t] = "init"]
    /\ UNCHANGED <<rx_png, sessionVars, resources, rendererVars, controlVars, boundVars,
                   presentVars, execution, historyVars>>

\* The scenario writes the temporary file ("we allow tests to create this
\* temporary file").
TestSave ==
    /\ \E t \in Tests :
         /\ tests[t] = "init"
         /\ tests' = [tests EXCEPT ![t] = "saved"]
    /\ rx_png' = TRUE
    /\ UNCHANGED <<sessionVars, resources, rendererVars, controlVars, boundVars,
                   presentVars, execution, historyVars>>

\* rx::init returns and the guard is dropped.
TestExit ==
    /\ \E t \in Tests :
         /\ tests[t] \in {"init", "saved"}
         /\ tests' = [tests EXCEPT ![t] = "done"]
    /\ UNCHANGED <<rx_png, sessionVars, resources, rendererVars, controlVars, boundVars,
                   presentVars, execution, historyVars>>

\* The test threads, run in parallel by the test harness.
InitTests ==
    /\ InitRenderer
    /\ execution = Normal
    /\ budget = 0
    /\ horizon = 0

NextTests == TestRemove \/ TestConfig \/ TestLock \/ TestSave \/ TestExit

SpecTests == InitTests /\ [][NextTests]_vars

\* ------------------------------------------------------------ properties
\* The last thing the running call did was to apply an effect.
AfterEffect == flog # <<>> /\ flog[Len(flog)] = "effect"

\* The shapes of the effects of one type, in order.
RECURSIVE ShapesOf(_, _)
ShapesOf(effs, type) ==
    IF effs = <<>> THEN <<>>
    ELSE (IF Head(effs).type = type THEN Head(effs).shapes ELSE <<>>)
         \o ShapesOf(Tail(effs), type)

\* C1: in a call of frame that finds the session Running, the effects applied
\* so far are a prefix of the delivered sequence (they are applied one by one
\* in its order), and once a view op is handled or the passes are recorded
\* every delivered effect has been applied.
C1_EffectsInOrderBeforeOpsAndPasses ==
    phase = "running" =>
        /\ Len(applied) <= Len(delivered)
        /\ applied = SubSeq(delivered, 1, Len(applied))
        /\ \A i \in DOMAIN flog : flog[i] = "effect" => i <= Len(applied)
        /\ (\E i \in DOMAIN flog : flog[i] # "effect") =>
             /\ applied = delivered
             /\ \A j \in 1..Len(delivered) : flog[j] = "effect"

\* A running frame that applied two different effects, then handled a view op
\* and recorded its passes.
C1_Witness ==
    /\ phase = "running" /\ Alive
    /\ Len(delivered) >= 2 /\ delivered[1] # delivered[2]
    /\ applied = delivered
    /\ \E i, j \in DOMAIN flog : i < j /\ flog[i] = "op" /\ flog[j] = "pass"

\* C2: when a call of init or frame has returned, every effect handed to it
\* has been applied exactly once, whatever the session state.
C2_EveryEffectAppliedOnce ==
    (Alive /\ (pc = "cleanup" \/ (pc = "update" /\ phase = "init"))) =>
        applied = delivered

\* C3: after a ViewTouched or ViewDamaged effect of a live view has been
\* handled, and before the next effect is, the view's framebuffer has the
\* view's width and height.
C3_FramebufferMatchesView ==
    (Alive /\ last.type \in {"ViewTouched", "ViewDamaged"}) =>
        /\ last.id \in DOMAIN views
        /\ last.id \in DOMAIN view_data
        /\ view_data[last.id].fb.w = views[last.id].fw
        /\ view_data[last.id].fb.h = views[last.id].fh
        /\ DOMAIN view_data[last.id].fb.px = Coords(views[last.id].fw, views[last.id].fh)

\* A resize has been reconciled in a tick after the first.
C3_Witness ==
    /\ Alive /\ tick >= 1
    /\ last.type = "ViewTouched" /\ last.branch = "recreate"
    /\ view_data[last.id].fb.w = views[last.id].fw

\* C4: right after handle_view_dirty re-created a view, the new final
\* framebuffer holds the snapshot's pixels in [0,min(Sw,Vw)) x [0,min(Sh,Vh))
\* and is transparent elsewhere, and the new staging framebuffer is
\* transparent everywhere.
C4_TransferRegion ==
    (Alive /\ AfterEffect /\ last.branch = "recreate") =>
        LET s == last.snap[1]
            v == views[last.id]
            d == view_data[last.id]
            tw == Min(s.w, v.fw)
            th == Min(s.h, v.fh)
            src == into_bgra8(s.pixels)
        IN  /\ DOMAIN d.fb.px = Coords(v.fw, v.fh)
            /\ DOMAIN d.staging_fb.px = Coords(v.fw, v.fh)
            /\ \A c \in Coords(v.fw, v.fh) :
                 /\ d.staging_fb.px[c] = "T"
                 /\ d.fb.px[c] = IF c[1] < tw /\ c[2] < th THEN src.px[c] ELSE "T"

\* A view was re-created narrower than its snapshot, and a painted snapshot
\* pixel was transferred.
C4_Witness ==
    /\ Alive /\ AfterEffect /\ last.branch = "recreate"
    /\ last.snap[1].w > views[last.id].fw
    /\ view_data[last.id].fb.px[<<0, 0>>] = "Q"

\* C5: right after a resize has been reconciled by re-creating the view, the
\* re-created framebuffer shows every committed stroke that is in bounds.
C5_StrokeSurvivesResize ==
    (Alive /\ AfterEffect /\ last.type = "ViewTouched" /\ last.branch = "recreate") =>
        \A p \in stroke[last.id] :
            /\ p \in DOMAIN view_data[last.id].fb.px
            /\ view_data[last.id].fb.px[p] = "Q"

C7_FinalContentPersists ==
    [][~(pc = "effects" /\ queue # <<>> /\ Head(queue).type = "ViewTouched") =>
          \A id \in DOMAIN view_data \cap DOMAIN views' :
              \A p \in painted[id] :
                  (p \in DOMAIN view_data[id].fb.px /\ view_data[id].fb.px[p] = "Q") =>
                      /\ id \in DOMAIN view_data'
                      /\ p \in DOMAIN view_data'[id].fb.px
                      /\ view_data'[id].fb.px[p] = "Q"]_vars

\* A pixel of a framebuffer that the display pass of this frame draws over:
\* a shape of the final batch or a paste output covers it.
Covered(c, fb, v) ==
    LET vx == ViewCell(c[1], v.fw, fb.w)
        vy == ViewCell(c[2], v.fh, fb.h)
    IN  \/ \E i \in DOMAIN final_batch : final_batch[i].x = vx /\ final_batch[i].y = vy
        \/ \E i \in DOMAIN paste.outputs : InRect(vx, vy, paste.outputs[i])

\* C7, amended: the display pass loads the final framebuffer, it changes only
\* the pixels of the active view that this frame's final shapes and paste
\* outputs cover.  Apart from that a final framebuffer changes only when a
\* ViewAdded, ViewRemoved, ViewTouched or ViewDamaged effect of its view is
\* handled or a Clear or Blit op of its view is.
C7_FinalLoadedNotCleared ==
    [][\A id \in DOMAIN view_data :
         LET fb == view_data[id].fb
             kept == id \in DOMAIN view_data' /\ view_data'[id].fb = fb
         IN  CASE pc = "render" ->
                    /\ id \in DOMAIN view_data'
                    /\ DOMAIN view_data'[id].fb.px = DOMAIN fb.px
                    /\ \A c \in DOMAIN fb.px :
                         (id # active \/ ~Covered(c, fb, views[active])) =>
                            view_data'[id].fb.px[c] = fb.px[c]
               [] pc \in {"init", "effects"} ->
                    \/ kept
                    \/ /\ queue # <<>>
                       /\ Head(queue).id = id
                       /\ Head(queue).type \in {"ViewAdded", "ViewRemoved",
                                                "ViewTouched", "ViewDamaged"}
               [] pc = "ops" ->
                    \/ kept
                    \/ /\ todo # <<>>
                       /\ Head(todo)[1] = id
                       /\ Head(todo)[2].op \in {"Clear", "Blit"}
               [] OTHER -> kept]_vars

\* A later frame that painted nothing has recorded its passes, and the active
\* view's framebuffer still shows what an earlier frame painted.
C7_Witness ==
    /\ Alive /\ tick >= 1 /\ phase = "running" /\ pc = "cleanup"
    /\ final_batch = <<>>
    /\ active \in DOMAIN view_data
    /\ painted[active] # {}
    /\ \A p \in painted[active] : view_data[active].fb.px[p] = "Q"

\* C8: when a running frame has recorded its passes, the staging framebuffer of
\* every view that has view data shows nothing but what this frame drew: it is
\* transparent unless the view is the active one and this frame had draft
\* shapes or a paste preview.
C8_StagingClearedEveryView ==
    (Alive /\ phase = "running" /\ pc \in {"readback", "cleanup"}) =>
        \A id \in DOMAIN view_data :
            \A c \in DOMAIN view_data[id].staging_fb.px :
                view_data[id].staging_fb.px[c] # "T" =>
                    /\ id = active
                    /\ (staging_batch # <<>> \/ draw_paste # <<>>)

\* C9: at the end of every call of frame every Paste op queued so far has been
\* drawn exactly once, and paste.outputs is empty.
C9_EveryPasteDrawnOnce ==
    (Alive /\ pc = "cleanup") =>
        /\ pasteDrawn = pasteQueued
        /\ paste.outputs = <<>>

\* C10: handling ViewRemoved(id) does not fail, removes the entry of id from
\* view_data if there is one and no other entry, and leaves the paste buffer,
\* both batches and the blend mode as they were.
C10_ViewRemovedHandling ==
    [][(pc = "effects" /\ Alive /\ queue # <<>> /\ Head(queue).type = "ViewRemoved") =>
          /\ ~panicked' /\ ~deadlocked'
          /\ DOMAIN view_data' = DOMAIN view_data \ {Head(queue).id}
          /\ \A i \in DOMAIN view_data' : view_data'[i] = view_data[i]
          /\ UNCHANGED <<paste, staging_batch, final_batch, blending>>]_vars

\* ViewRemoved has been handled for a view that had no view data.
C10_Witness ==
    /\ Alive /\ AfterEffect
    /\ last.type = "ViewRemoved" /\ ~last.had

\* C11: when a ViewTouched or ViewDamaged effect is handled for a damaged view
\* whose framebuffer already has the view's size, the framebuffer keeps its
\* size and every pixel of it becomes the pixel of the view's current snapshot
\* (in the framebuffer's Bgra8 layout), while the view_data entry stays: its
\* staging framebuffer is the one it had, and no other entry changes.
C11_DamagedFillReplacesContents ==
    [][(/\ pc = "effects" /\ Alive /\ queue # <<>>
        /\ Head(queue).type \in {"ViewTouched", "ViewDamaged"}
        /\ Head(queue).id \in DOMAIN views
        /\ Head(queue).id \in DOMAIN view_data
        /\ Head(queue).id \in DOMAIN resources
        /\ view_data[Head(queue).id].fb.w = views[Head(queue).id].fw
        /\ view_data[Head(queue).id].fb.h = views[Head(queue).id].fh
        /\ views[Head(queue).id].damaged) =>
          LET id == Head(queue).id
              src == into_bgra8(get_snapshot(resources, id).pixels)
          IN  /\ ~panicked' /\ ~deadlocked'
              /\ DOMAIN view_data' = DOMAIN view_data
              /\ \A i \in DOMAIN view_data \ {id} : view_data'[i] = view_data[i]
              /\ view_data'[id].staging_fb = view_data[id].staging_fb
              /\ view_data'[id].fb.w = view_data[id].fb.w
              /\ view_data'[id].fb.h = view_data[id].fb.h
              /\ DOMAIN view_data'[id].fb.px = Coords(views[id].fw, views[id].fh)
              /\ \A c \in Coords(views[id].fw, views[id].fh) :
                    view_data'[id].fb.px[c] = PixelAt(src, c[1], c[2])]_vars

\* An undo has been reconciled by the fill: a pixel that a committed stroke
\* had painted shows the restored snapshot's transparent pixel again.
C11_Witness ==
    /\ Alive /\ AfterEffect
    /\ last.type = "ViewDamaged" /\ last.branch = "fill"
    /\ \E p \in painted[last.id] :
          /\ p \in DOMAIN view_data[last.id].fb.px
          /\ view_data[last.id].fb.px[p] = "T"
          /\ PixelAt(into_bgra8(last.snap[1].pixels), p[1], p[2]) = "T"

\* C12, as stated: right after either reconciliation branch has been executed
\* for a view, the view's dirty and damaged flags are both cleared.
C12_CleanAfterReconcile ==
    (Alive /\ AfterEffect /\ last.branch \in {"recreate", "fill"}) =>
        /\ last.id \in DOMAIN views
        /\ ~views[last.id].dirty
        /\ ~views[last.id].damaged

\* C12, amended: no step of the renderer (init, or frame from its entry to the
\* read-back) changes a view's flags, size or op queue; whenever a flag of a
\* view is cleared, the step is one of the session, outside init and frame.
C12_RendererLeavesFlags ==
    [][/\ pc \in {"init", "frame", "effects", "ops", "render", "readback"} =>
             views' = views
       /\ (\E id \in DOMAIN views \cap DOMAIN views' :
               \/ views[id].dirty /\ ~views'[id].dirty
               \/ views[id].damaged /\ ~views'[id].damaged) =>
             pc \in {"update", "cleanup"}]_vars

\* A view was reconciled by re-creation earlier in this frame and the frame,
\* past its passes, finds the view still dirty and submits the read-back.
C12_Witness ==
    /\ Alive /\ phase = "running" /\ pc = "readback"
    /\ \E i \in DOMAIN applied :
          /\ applied[i].type = "ViewTouched"
          /\ applied[i].id = active
    /\ views[active].dirty
    /\ tick >= 1
    /\ view_data[active].fb.w # MaxDim

\* C13: no effect is handled by submitting to the device while the renderer
\* holds the resource manager lock.
C13_NoSubmitUnderLock ==
    (Alive /\ AfterEffect) => ~last.locked

\* C14: the callback of a read-back never runs while the renderer holds the
\* resource manager lock, so it never waits for a lock its own thread holds.
C14_NoCallbackUnderLock == ~deadlocked

\* The steps that submit to the device, and the read-backs whose callback a
\* step runs: those pending before it that are no longer pending after it.
Submitting == pc \in {"init", "effects", "ops", "render", "readback", "digest"}
Completes(i) == \A j \in DOMAIN pending' : pending'[j] # pending[i]

C17_ReplayMatchesRecording == execution.failure = <<>>

\* C16: a replay dispatches the events of its log one per tick, in the order
\* of the log, and when it has ended every event of the log has been
\* dispatched.
C16_ReplayDispatchesWholeLog ==
    /\ execution.mode = "replaying" =>
          /\ \A i \in DOMAIN execution.log : execution.log[i].tick = i - 1
          /\ \A i \in DOMAIN execution.events :
                execution.events[i].tick = Len(execution.log) + i - 1
    /\ pc = "exit" => execution.events = <<>>

\* C18, as stated: when a replay in Verify mode has failed on the digest of a
\* tick, no event of a later tick has been dispatched.
C18_HaltsAtMismatchingTick ==
    execution.failure # <<>> =>
        \A i \in DOMAIN execution.log :
            execution.log[i].tick <= execution.failure[1].tick

\* C18, amended: the mismatch of a tick's digest is found when the callback of
\* that tick's digest read-back runs, in a later tick.  The run is then halted
\* at once: no step follows, so no event of a tick after the one that found
\* the mismatch is dispatched.  The failure names the mismatching tick, the
\* digest stored for it and the differing digest computed, and every tick
\* verified before it is an earlier one.
C18_FailsWhenMismatchFound ==
    execution.failure # <<>> =>
        LET f == execution.failure[1]
        IN  /\ pc = "exit"
            /\ execution.mode = "replaying"
            /\ f.tick < tick
            /\ f.stored # f.computed
            /\ \E i \in StoredFor(execution, f.tick) : execution.frames[i].digest = f.stored
            /\ \A i \in DOMAIN execution.checked : execution.checked[i] < f.tick
            /\ \A i \in DOMAIN execution.log : execution.log[i].tick <= tick

\* A replay has failed on the digest of a tick after the event of the next
\* tick was dispatched, and with events of the log left in the queue.
C18_Witness ==
    /\ execution.failure # <<>>
    /\ execution.events # <<>>
    /\ \E i \in DOMAIN execution.log :
          execution.log[i].tick > execution.failure[1].tick
    /\ execution.checked # <<>>

\* One of the lookups of the renderer has failed: that of the active view's
\* view data in frame, that of the view of a ViewTouched or ViewDamaged effect
\* or of its view data, or that of the view data of a view with view ops.
LookupFailed ==
    /\ panicked
    /\ \/ pc = "render" /\ active \notin DOMAIN view_data
       \/ /\ pc = "effects" /\ queue # <<>>
          /\ Head(queue).type \in {"ViewTouched", "ViewDamaged"}
          /\ \/ Head(queue).id \notin DOMAIN views
             \/ Head(queue).id \notin DOMAIN view_data
       \/ pc = "ops" /\ todo # <<>> /\ Head(todo)[1] \notin DOMAIN view_data

\* C19: no lookup of the renderer fails: the view of a ViewTouched or
\* ViewDamaged effect is in the view manager when the effect is handled, view
\* data exists for every view handed to handle_view_dirty and handle_view_ops,
\* and view data exists for the active view in every frame.
C19_NoLookupFails == ~LookupFailed

\* A step that is a call of update_present_mode: an input is counted and the
\* session and the resources stay as they are.
PresentModeCall ==
    /\ pc = "update" /\ pc' = "update"
    /\ budget' # budget
    /\ UNCHANGED <<sstate, views, active, pasting, selection, effects, resources>>

C21_EmptyTransferNoError ==
    /\ Alive
    /\ (/\ AfterEffect
        /\ last.type \in {"ViewTouched", "ViewDamaged"}
        /\ last.id \in DOMAIN views
        /\ last.branch = "recreate"
        /\ Min(last.snap[1].w, views[last.id].fw) * Min(last.snap[1].h, views[last.id].fh) = 0) =>
          LET v == views[last.id]
              d == view_data[last.id]
              rect == last.snap[2]
          IN  /\ rect = RectOrigin(Min(last.snap[1].w, v.fw), Min(last.snap[1].h, v.fh))
              /\ RectW(rect) * RectH(rect) = 0
              /\ d.fb.w = v.fw /\ d.fb.h = v.fh
              /\ DOMAIN d.fb.px = Coords(v.fw, v.fh)
              /\ DOMAIN d.staging_fb.px = Coords(v.fw, v.fh)
              /\ \A c \in Coords(v.fw, v.fh) : d.fb.px[c] = "T" /\ d.staging_fb.px[c] = "T"
    /\ (/\ AfterEffect
        /\ last.type \in {"ViewTouched", "ViewDamaged"}
        /\ last.id \in DOMAIN views
        /\ views[last.id].fw * views[last.id].fh = 0) =>
          /\ view_data[last.id].fb.w = views[last.id].fw
          /\ view_data[last.id].fb.h = views[last.id].fh
          /\ DOMAIN view_data[last.id].fb.px = {}

\* A view that was collapsed to nothing, and whose empty framebuffer was read
\* back as its snapshot, has been resized to a size again: the re-creation
\* found no overlap with the snapshot and transferred nothing.
C21_Witness ==
    /\ Alive /\ AfterEffect
    /\ last.type = "ViewTouched" /\ last.branch = "recreate"
    /\ last.snap[1].w * last.snap[1].h = 0
    /\ views[last.id].fw > 0 /\ views[last.id].fh > 0
    /\ view_data[last.id].fb.w = views[last.id].fw

\* C22: one reconciliation of a view takes one branch: the re-creation when
\* the framebuffer's size differs from the view's, whether or not the view is
\* damaged as well (the fill is then not run: the framebuffers are new, of the
\* view's size, the staging one transparent); the fill when the sizes are equal
\* and the view is damaged (the framebuffers keep their size and the staging
\* one its contents); neither when the sizes are equal and the view is not
\* damaged, and then nothing is submitted and the view data stays as it is.
C22_OneBranchPerReconciliation ==
    [][(/\ pc = "effects" /\ Alive /\ queue # <<>>
        /\ Head(queue).type \in {"ViewTouched", "ViewDamaged"}
        /\ Head(queue).id \in DOMAIN views
        /\ Head(queue).id \in DOMAIN view_data
        /\ Head(queue).id \in DOMAIN resources) =>
          LET id == Head(queue).id
              v == views[id]
              fb == view_data[id].fb
              differs == fb.w # v.fw \/ fb.h # v.fh
          IN  /\ ~panicked' /\ ~deadlocked'
              /\ last'.branch = (IF differs THEN "recreate"
                                 ELSE IF v.damaged THEN "fill" ELSE "none")
              /\ differs =>
                    /\ view_data'[id].fb.w = v.fw /\ view_data'[id].fb.h = v.fh
                    /\ view_data'[id].staging_fb.w = v.fw /\ view_data'[id].staging_fb.h = v.fh
                    /\ \A c \in Coords(v.fw, v.fh) : view_data'[id].staging_fb.px[c] = "T"
              /\ (~differs /\ v.damaged) =>
                    /\ view_data'[id].staging_fb = view_data[id].staging_fb
                    /\ view_data'[id].fb.w = fb.w /\ view_data'[id].fb.h = fb.h
              /\ (~differs /\ ~v.damaged) =>
                    /\ view_data' = view_data
                    /\ pending' = pending
                    /\ resources' = resources]_vars

\* An undo restored a snapshot of another size than the framebuffer's: the
\* damaged view has been reconciled by the re-creation alone, and its
\* framebuffer has the size of the view and of the restored snapshot.
C22_Witness ==
    /\ Alive /\ AfterEffect
    /\ last.type = "ViewDamaged" /\ last.branch = "recreate"
    /\ views[last.id].damaged
    /\ view_data[last.id].fb.w = views[last.id].fw
    /\ view_data[last.id].fb.h = views[last.id].fh
    /\ last.snap[1].w = views[last.id].fw

\* C23: no frame re-creates the paste texture and draws the paste preview.
\* Handling a Yank gives the texture the size of the yanked rectangle and,
\* when that size is a new one, resets paste.ready; the passes of a frame draw
\* the preview if and only if there is a paste batch and paste.ready is set,
\* and set paste.ready if there is a paste batch: so the first frame with a
\* paste batch after the re-creation skips the preview and the following ones
\* draw it.  Nothing else changes paste.ready.
C23_PreviewSkippedAfterResize ==
    [][/\ ~(\E i, j \in DOMAIN flog : flog[i] = "texture" /\ flog[j] = "preview")
       /\ (pc = "ops" /\ Alive /\ Alive' /\ todo # <<>> /\ Head(todo)[2].op = "Yank") =>
            LET src == Head(todo)[2].src
                resized == paste.texture.w # RectW(src) \/ paste.texture.h # RectH(src)
            IN  /\ paste'.texture.w = RectW(src)
                /\ paste'.texture.h = RectH(src)
                /\ paste'.ready = (IF resized THEN FALSE ELSE paste.ready)
                /\ resized <=> flog'[Len(flog')] = "texture"
       /\ (pc = "render" /\ Alive /\ Alive') =>
            /\ (\E i \in DOMAIN flog' : flog'[i] = "preview")
                  <=> (draw_paste # <<>> /\ paste.ready)
            /\ paste'.ready = (draw_paste # <<>> \/ paste.ready)
            /\ paste'.texture = paste.texture
       /\ paste'.ready # paste.ready => pc \in {"ops", "render"}]_vars

\* The frame of the tick before re-created the paste texture at the size of the
\* yanked rectangle and skipped the preview; this frame has drawn it.
C23_Witness ==
    /\ Alive /\ phase = "running" /\ pc = "cleanup" /\ tick >= 1
    /\ \E i \in DOMAIN flog : flog[i] = "preview"
    /\ \A i \in DOMAIN flog : flog[i] # "op"
    /\ paste.ready
    /\ paste.texture.w = MaxDim /\ paste.texture.h = MaxDim

\* C24: handling a Yank op of any view leaves the one paste texture with the
\* width and height of the yanked rectangle and with the snapshot pixels
\* returned for that rectangle, whatever it held before, and the pixels
\* uploaded are as many as the texture has, width times height, also when the
\* rectangle lies partly or wholly outside the snapshot.
C24_YankFillsWholeTexture ==
    [][(/\ pc = "ops" /\ Alive /\ Alive' /\ todo # <<>>
        /\ Head(todo)[2].op = "Yank") =>
          LET id == Head(todo)[1]
              src == Head(todo)[2].src
              pixels == get_snapshot_rect(resources, id, src)
          IN  /\ paste'.texture.w = RectW(src)
              /\ paste'.texture.h = RectH(src)
              /\ \A c \in DOMAIN pixels.px : paste'.texture.px[c] = pixels.px[c]
              /\ Cardinality(DOMAIN pixels.px) = paste'.texture.w * paste'.texture.h]_vars

\* C25: whenever a test takes the mutex and its scenario starts executing
\* inside rx::init, the file /tmp/rx.png does not exist, whatever the
\* interleaving of the test threads.
C25_NoFileWhenScenarioStarts ==
    [][\A t \in Tests :
          (tests[t] = "configured" /\ tests'[t] = "init") => ~rx_png]_vars

\* C26: a frame submits the snapshot read-back if and only if the active view
\* is dirty in it; the callback of a read-back, when it runs, pushes one
\* snapshot onto the history of its view, with the pixels read and the extent
\* the view had when the read-back was submitted, and leaves the other
\* histories alone; when its view is no longer known to the resource manager
\* it changes nothing and fails nothing.
C26_ReadbackIffDirty ==
    [][/\ (pc \in {"frame", "render", "readback"} /\ pc' = "cleanup" /\ Alive') =>
            (pc = "readback" <=> views[active].dirty)
       /\ (Submitting /\ Len(pending') = Len(pending) - 1 + (IF pc = "readback" THEN 1 ELSE 0)
           /\ pending # <<>> /\ Completes(1)) =>
            LET cb == pending[1]
            IN  IF cb.id \in DOMAIN resources
                THEN /\ DOMAIN resources' = DOMAIN resources
                     /\ \A i \in DOMAIN resources \ {cb.id} : resources'[i] = resources[i]
                     /\ resources'[cb.id] =
                          push_snapshot(resources[cb.id], Pixels("bgra", cb.data), cb.w, cb.h)
                     /\ get_snapshot(resources', cb.id).w = cb.w
                     /\ get_snapshot(resources', cb.id).h = cb.h
                ELSE /\ resources' = resources
                     /\ ~panicked']_vars

\* C27: when a frame has applied its effects and records its passes, the ids
\* that have view data are the ids of the live views, and render_views draws
\* the framebuffers of every view, each with the transform of that same view.
C27_ViewDataMatchesViews ==
    (Alive /\ phase = "running" /\ pc = "render") =>
        /\ DOMAIN view_data = DOMAIN views
        /\ Len(render_views) = Cardinality(DOMAIN views)
        /\ \A i \in DOMAIN render_views : render_views[i][1] = render_views[i][2]

\* C28: the passes of a frame draw the whole staging batch and the paste
\* preview into the staging framebuffer, and the whole final batch and every
\* queued paste output into the final framebuffer, of the view that is active
\* when the passes are recorded, whichever view was active when the shapes and
\* ops were emitted; the framebuffers of every other view stay as they are, and
\* the paste outputs are drained.
C28_PassesTargetActiveView ==
    [][(pc = "render" /\ Alive /\ Alive') =>
          LET v == views[active]
              d == view_data[active]
              brushed == render_brush_strokes(d.fb, final_batch, blending, v.fw, v.fh)
              drafted == render_brush_strokes(OpClear(d.staging_fb, "T"), staging_batch,
                                              "default", v.fw, v.fh)
          IN  /\ DOMAIN view_data' = DOMAIN view_data
              /\ \A id \in DOMAIN view_data \ {active} : view_data'[id] = view_data[id]
              /\ view_data'[active].fb =
                    DrawPasteQuads(brushed, paste.texture, paste.outputs, v.fw, v.fh)
              /\ view_data'[active].staging_fb =
                    (IF draw_paste # <<>> /\ paste.ready
                     THEN DrawPasteQuads(drafted, paste.texture, draw_paste, v.fw, v.fh)
                     ELSE drafted)
              /\ paste'.outputs = <<>>]_vars

\* A stroke was committed while view 1 was active and a view was opened in the
\* same update: the frame has drawn the stroke into the framebuffer of the new
\* view, the active one, and the framebuffer of view 1 does not show it.
C28_Witness ==
    /\ Alive /\ phase = "running" /\ pc = "cleanup"
    /\ active = 2 /\ DOMAIN view_data = {1, 2}
    /\ final_batch # <<>>
    /\ \E i \in DOMAIN applied : applied[i].type = "ViewTouched" /\ applied[i].id = 1
    /\ \E c \in DOMAIN view_data[2].fb.px : view_data[2].fb.px[c] = "Q"
    /\ \A c \in DOMAIN view_data[1].fb.px : view_data[1].fb.px[c] = "T"

\* C29: the staging pass draws the draft shapes with the default blending.
\* The display pass draws all final shapes of the frame with one blend mode,
\* the renderer's when the passes are recorded: the one set by the last
\* ViewBlendingChanged effect this frame applied, also for shapes whose
\* ViewPaintFinal came before it, or, if the frame applied none, the mode the
\* frame started with.  The blend mode is changed by handling a
\* ViewBlendingChanged effect and by nothing else.
C29_BlendModeOfFrame ==
    [][/\ (pc = "render" /\ Alive /\ Alive') =>
            LET v == views[active]
                d == view_data[active]
                changes == {i \in DOMAIN applied : applied[i].type = "ViewBlendingChanged"}
                mode == IF changes = {} THEN blending
                        ELSE applied[CHOOSE i \in changes : \A j \in changes : j <= i].blending
                drafted == render_brush_strokes(OpClear(d.staging_fb, "T"),
                                                ShapesOf(applied, "ViewPaintDraft"),
                                                "default", v.fw, v.fh)
            IN  /\ blending = mode
                /\ view_data'[active].fb =
                      DrawPasteQuads(render_brush_strokes(d.fb, ShapesOf(applied, "ViewPaintFinal"),
                                                          mode, v.fw, v.fh),
                                     paste.texture, paste.outputs, v.fw, v.fh)
                /\ view_data'[active].staging_fb =
                      (IF draw_paste # <<>> /\ paste.ready
                       THEN DrawPasteQuads(drafted, paste.texture, draw_paste, v.fw, v.fh)
                       ELSE drafted)
       /\ blending' # blending =>
            /\ pc \in {"init", "effects"} /\ queue # <<>>
            /\ Head(queue).type = "ViewBlendingChanged"
       /\ (pc \in {"init", "effects"} /\ Alive /\ Alive' /\ queue # <<>>
           /\ Head(queue).type = "ViewBlendingChanged") =>
            blending' = Head(queue).blending]_vars

\* A pixel painted in an earlier frame was erased in this one: the transparent
\* shape was emitted before the blend mode was changed to constant in the same
\* update, and the display pass drew it with the constant mode.
C29_Witness ==
    /\ Alive /\ phase = "running" /\ pc \in {"readback", "cleanup"} /\ tick >= 1
    /\ blending = "constant"
    /\ \E i, j \in DOMAIN applied :
          /\ i < j
          /\ applied[i].type = "ViewPaintFinal"
          /\ applied[j].type = "ViewBlendingChanged"
          /\ applied[i].shapes[1].c = "T"
          /\ <<applied[i].shapes[1].x, applied[i].shapes[1].y>> \in painted[active]
          /\ view_data[active].fb.px[<<applied[i].shapes[1].x, applied[i].shapes[1].y>>] = "T"

====
